---- MODULE Spec2Model ----
(***************************************************************************)
(* Model of the SBI binary serialization buffer (src/src/lib.rs).          *)
(*                                                                         *)
(* A byte is a number in 0..255 and the buffer `data` a sequence of bytes. *)
(* Rust types are named by strings ("u8", "Vec<String>", ...).             *)
(* Values:                                                                 *)
(*   - a numeric of at most 2 bytes is an integer;                         *)
(*   - a wider unsigned numeric (u64) and every usize is a sequence        *)
(*     of 16-bit limbs, most significant first (SIZE/2 limbs), so that the *)
(*     full 64-bit range of a length prefix and of the cursor is kept;     *)
(*   - a String is the sequence of its UTF-8 bytes;                        *)
(*   - a Vec<T> is a sequence of values of T.                              *)
(* The target is a 64-bit one: usize is 8 bytes wide.                      *)
(***************************************************************************)
EXTENDS Integers, Sequences, FiniteSets, TLC

VARIABLES data, written, last

vars == <<data, written, last>>

(***************************************************************************)
(* Bounds of the model.                                                    *)
(***************************************************************************)
MaxOps    == 2   \* serialize calls per buffer
MaxStrLen == 1   \* characters of a serialized String
MaxVecLen == 1   \* elements of a serialized Vec
MaxAtoms  == 2   \* pieces of a buffer loaded by from_path

(***************************************************************************)
(* 64-bit arithmetic on limbs (usize and u64 on a 64-bit target).          *)
(***************************************************************************)
B == 256 * 256

\* a small natural number as a usize / u64 (`x as u64`, `x as usize`)
Limbs(n) == <<0, 0, n \div B, n % B>>

\* the value of a usize that is known to be below 2^30
WNat(x) == x[3] * B + x[4]

\* x < y on usize
WLess(x, y) ==
    \E i \in 1..4 : x[i] < y[i] /\ \A j \in 1..(i - 1) : x[j] = y[j]

\* x + y on usize: the wrapped sum and whether it overflowed
WAdd(x, y) ==
    LET s4 == x[4] + y[4]
        s3 == x[3] + y[3] + (s4 \div B)
        s2 == x[2] + y[2] + (s3 \div B)
        s1 == x[1] + y[1] + (s2 \div B)
    IN  [v |-> <<s1 % B, s2 % B, s3 % B, s4 % B>>, overflow |-> s1 \div B > 0]

\* x * k for a small k: the wrapped product and whether it exceeds isize::MAX
WMul(x, k) ==
    LET p4 == x[4] * k
        p3 == x[3] * k + (p4 \div B)
        p2 == x[2] * k + (p3 \div B)
        p1 == x[1] * k + (p2 \div B)
    IN  [v |-> <<p1 % B, p2 % B, p3 % B, p4 % B>>,
         tooBig |-> p1 >= B \div 2]

(***************************************************************************)
(* The supported types.                                                    *)
(***************************************************************************)
NumTypes == {"u8", "i16", "u64"}
VecTypes == {"Vec<u8>", "Vec<Vec<String>>"}

\* the types the calls are made at
Types    == NumTypes \cup VecTypes \cup {"String"}

Kind(T) == IF T \in NumTypes THEN "num" ELSE IF T = "String" THEN "str" ELSE "vec"

Elem(T) ==
    CASE T = "Vec<u8>"          -> "u8"
      [] T = "Vec<String>"      -> "String"
      [] T = "Vec<Vec<String>>" -> "Vec<String>"

\* const SIZE: usize = mem::size_of::<$t>()
SIZE(T) ==
    CASE T = "u8"  -> 1
      [] T = "i16" -> 2
      [] T = "u64" -> 8

Signed(T) == T = "i16"

\* mem::size_of::<T>() of an element type, as Vec::with_capacity uses it
SizeOf(T) == IF Kind(T) = "num" THEN SIZE(T) ELSE 3 * 8

(***************************************************************************)
(* to_be_bytes / from_be_bytes.                                            *)
(***************************************************************************)
RECURSIVE Pow256(_)
Pow256(n) == IF n = 0 THEN 1 ELSE 256 * Pow256(n - 1)

\* the n base-256 digits of a natural number u < 256^n, most significant first
RECURSIVE Digits(_, _)
Digits(u, n) == IF n = 0 THEN <<>> ELSE Append(Digits(u \div 256, n - 1), u % 256)

\* the natural number written by base-256 digits, most significant first
RECURSIVE Undigits(_)
Undigits(bs) ==
    IF bs = <<>> THEN 0
    ELSE 256 * Undigits(SubSeq(bs, 1, Len(bs) - 1)) + bs[Len(bs)]

RECURSIVE LimbBytes(_)
LimbBytes(ls) ==
    IF ls = <<>> THEN <<>> ELSE Digits(ls[1], 2) \o LimbBytes(Tail(ls))

\* self.to_be_bytes()
to_be_bytes(T, v) ==
    IF SIZE(T) <= 2
    THEN Digits(IF v < 0 THEN v + Pow256(SIZE(T)) ELSE v, SIZE(T))
    ELSE LimbBytes(v)

\* a from_be_bytes that reads every type as unsigned
from_be_bytes_unsigned(T, bs) ==
    IF SIZE(T) <= 2 THEN Undigits(bs)
    ELSE [i \in 1..(SIZE(T) \div 2) |-> 256 * bs[2 * i - 1] + bs[2 * i]]

\* <$t>::from_be_bytes(data)
from_be_bytes(T, bs) ==
    IF SIZE(T) <= 2
    THEN LET u == Undigits(bs)
         IN  IF Signed(T) /\ u >= Pow256(SIZE(T)) \div 2 THEN u - Pow256(SIZE(T)) ELSE u
    ELSE [i \in 1..(SIZE(T) \div 2) |-> 256 * bs[2 * i - 1] + bs[2 * i]]

(***************************************************************************)
(* String::from_utf8_lossy: the valid parts of the bytes are kept and each *)
(* maximal invalid part is replaced by U+FFFD (EF BF BD).                  *)
(***************************************************************************)
REPLACEMENT == <<239, 191, 189>>

utf8_char_width(b) ==
    IF b < 128 THEN 1
    ELSE IF b >= 194 /\ b <= 223 THEN 2
    ELSE IF b >= 224 /\ b <= 239 THEN 3
    ELSE IF b >= 240 /\ b <= 244 THEN 4
    ELSE 0

\* the byte at index i (1-based), 0 beyond the end
safe_get(bs, i) == IF i <= Len(bs) THEN bs[i] ELSE 0

IsCont(b) == b >= 128 /\ b <= 191

\* may b follow the lead byte `first` of a 3- or 4-byte sequence
SecondOk(first, b) ==
    CASE first = 224                -> b >= 160 /\ b <= 191
      [] first >= 225 /\ first <= 236 -> IsCont(b)
      [] first = 237                -> b >= 128 /\ b <= 159
      [] first >= 238 /\ first <= 239 -> IsCont(b)
      [] first = 240                -> b >= 144 /\ b <= 191
      [] first >= 241 /\ first <= 243 -> IsCont(b)
      [] first = 244                -> b >= 128 /\ b <= 143
      [] OTHER                      -> FALSE

\* the sequence starting at index i: whether it is valid, and how many
\* bytes it spans (the bytes accepted before an invalid one otherwise)
Utf8Step(bs, i) ==
    LET first == bs[i]
        w     == utf8_char_width(first)
    IN  IF w = 1 THEN [ok |-> TRUE, n |-> 1]
        ELSE IF w = 2 THEN
            IF IsCont(safe_get(bs, i + 1)) THEN [ok |-> TRUE, n |-> 2]
            ELSE [ok |-> FALSE, n |-> 1]
        ELSE IF w = 3 THEN
            IF ~SecondOk(first, safe_get(bs, i + 1)) THEN [ok |-> FALSE, n |-> 1]
            ELSE IF ~IsCont(safe_get(bs, i + 2)) THEN [ok |-> FALSE, n |-> 2]
            ELSE [ok |-> TRUE, n |-> 3]
        ELSE IF w = 4 THEN
            IF ~SecondOk(first, safe_get(bs, i + 1)) THEN [ok |-> FALSE, n |-> 1]
            ELSE IF ~IsCont(safe_get(bs, i + 2)) THEN [ok |-> FALSE, n |-> 2]
            ELSE IF ~IsCont(safe_get(bs, i + 3)) THEN [ok |-> FALSE, n |-> 3]
            ELSE [ok |-> TRUE, n |-> 4]
        ELSE [ok |-> FALSE, n |-> 1]

RECURSIVE LossyFrom(_, _)
LossyFrom(bs, i) ==
    IF i > Len(bs) THEN <<>>
    ELSE LET s == Utf8Step(bs, i)
         IN  (IF s.ok THEN SubSeq(bs, i, i + s.n - 1) ELSE REPLACEMENT)
             \o LossyFrom(bs, i + s.n)

from_utf8_lossy(bs) == LossyFrom(bs, 1)

(***************************************************************************)
(* Serialize: every implementation appends to sbi.data; the buffer is      *)
(* threaded through the nested calls as the code threads `sbi`.            *)
(***************************************************************************)
\* an extend that inserts at the front of the buffer
extend_from_slice_front(buf, bs) == bs \o buf

\* sbi.data.extend_from_slice(bytes)
extend_from_slice(buf, bs) == buf \o bs

\* impl Serialize for $t
serialize_num(T, v, buf) == extend_from_slice(buf, to_be_bytes(T, v))

RECURSIVE serialize(_, _, _)
RECURSIVE serialize_items(_, _, _, _)

\* for item in self.iter() { item.serialize(sbi) }, from the i-th item on
serialize_items(T, items, i, buf) ==
    IF i > Len(items) THEN buf
    ELSE serialize_items(T, items, i + 1, serialize(T, items[i], buf))

\* a Vec encoder that writes the count after the elements
serialize_vec_countlast(T, v, buf) ==
    serialize_num("u64", Limbs(Len(v)), serialize_items(Elem(T), v, 1, buf))

\* impl Serialize for Vec<T>
serialize_vec(T, v, buf) ==
    serialize_items(Elem(T), v, 1, serialize_num("u64", Limbs(Len(v)), buf))

\* impl Serialize for String
serialize_string(v, buf) ==
    extend_from_slice(serialize_num("u64", Limbs(Len(v)), buf), v)

\* T::serialize, dispatched on the type
serialize(T, v, buf) ==
    IF Kind(T) = "num" THEN serialize_num(T, v, buf)
    ELSE IF Kind(T) = "str" THEN serialize_string(v, buf)
    ELSE serialize_vec(T, v, buf)

(***************************************************************************)
(* Deserialize.  A decode step takes the buffer, the cursor (a usize), the *)
(* trace of the values the cursor has had so far, and the environment:     *)
(*   env.overflowChecks  the build panics on arithmetic overflow (debug)   *)
(*                       or wraps (release);                               *)
(*   env.allocOk         whether the allocator grants the memory the call  *)
(*                       asks for (any request of more than 0 bytes may be *)
(*                       refused, whatever its size), the memory a panic   *)
(*                       itself asks for included.                         *)
(* It yields the outcome                                                   *)
(*   kind    "Ok", "Err" (the Err(()) of the code), "Panic" (an unwinding  *)
(*           panic) or "Abort" (handle_alloc_error, no unwinding);         *)
(*   val     <<value>> when Ok, <<>> otherwise;                            *)
(*   offset  the cursor when the step ended;                               *)
(*   trace   the cursor's successive values.                               *)
(***************************************************************************)
Outcome(k, v, off, tr) == [kind |-> k, val |-> v, offset |-> off, trace |-> tr]

\* `*offset = x`
SetOffset(tr, x) == Append(tr, x)

\* a request the allocator may refuse: any request of more than 0 bytes
AllocMayFail(bytes) == bytes # Limbs(0)

\* a panic: the panic runtime boxes its payload and allocates the unwind
\* exception; when the allocator refuses, the process aborts instead
panic(env) == IF env.allocOk THEN "Panic" ELSE "Abort"

\* impl DeSerialize for $t
deserialize_num(T, buf, offset, tr, env) ==
    LET sum == WAdd(offset, Limbs(SIZE(T)))
        end_offset == sum.v
    IN  IF sum.overflow /\ env.overflowChecks
        THEN Outcome(panic(env), <<>>, offset, tr)      \* attempt to add with overflow
        ELSE IF WLess(Limbs(Len(buf)), end_offset)
        THEN Outcome("Err", <<>>, offset, tr)
        ELSE IF WLess(end_offset, offset)
        THEN Outcome(panic(env), <<>>, offset, tr)      \* slice index starts after its end
        ELSE Outcome("Ok",
                     <<from_be_bytes(T, SubSeq(buf, WNat(offset) + 1, WNat(end_offset)))>>,
                     end_offset, SetOffset(tr, end_offset))

\* a String decoder that sets the cursor to the length (`=` for `+=`)
deserialize_string_abs(buf, offset, tr, env) ==
    LET p == deserialize_num("u64", buf, offset, tr, env)
    IN  IF p.kind # "Ok" THEN p
        ELSE
        LET len == p.val[1]
            sum == WAdd(p.offset, len)
            end == sum.v
        IN  IF sum.overflow /\ env.overflowChecks
            THEN Outcome(panic(env), <<>>, p.offset, p.trace)
            ELSE IF WLess(end, p.offset) \/ WLess(Limbs(Len(buf)), end)
            THEN Outcome(panic(env), <<>>, p.offset, p.trace)
            ELSE IF AllocMayFail(len) /\ ~env.allocOk
            THEN Outcome("Abort", <<>>, p.offset, p.trace)
            ELSE Outcome("Ok",
                         <<from_utf8_lossy(SubSeq(buf, WNat(p.offset) + 1, WNat(end)))>>,
                         len, SetOffset(p.trace, len))

\* impl DeSerialize for String
deserialize_string(buf, offset, tr, env) ==
    LET p == deserialize_num("u64", buf, offset, tr, env)
    IN  IF p.kind # "Ok" THEN p
        ELSE
        LET len == p.val[1]
            sum == WAdd(p.offset, len)
            end == sum.v
        IN  IF sum.overflow /\ env.overflowChecks
            THEN Outcome(panic(env), <<>>, p.offset, p.trace)   \* attempt to add with overflow
            ELSE IF WLess(end, p.offset) \/ WLess(Limbs(Len(buf)), end)
            THEN Outcome(panic(env), <<>>, p.offset, p.trace)   \* slice index out of range
            ELSE IF AllocMayFail(len) /\ ~env.allocOk
            THEN Outcome("Abort", <<>>, p.offset, p.trace)   \* the String's memory is refused
            ELSE Outcome("Ok",
                         <<from_utf8_lossy(SubSeq(buf, WNat(p.offset) + 1, WNat(end)))>>,
                         end, SetOffset(p.trace, end))

RECURSIVE deserialize(_, _, _, _, _)
RECURSIVE deserialize_items(_, _, _, _, _, _, _)

\* for _ in 0..len { ret.push(T::deserialize(sbi, offset)?) }, from round i on
deserialize_items(T, buf, len, i, ret, cur, env) ==
    IF ~WLess(Limbs(i), len) THEN Outcome("Ok", <<ret>>, cur.offset, cur.trace)
    ELSE LET e == deserialize(T, buf, cur.offset, cur.trace, env)
         IN  IF e.kind # "Ok" THEN e
             ELSE deserialize_items(T, buf, len, i + 1, Append(ret, e.val[1]), e, env)

\* Vec::with_capacity(len as usize)
with_capacity(T, len, env) ==
    LET bytes == WMul(len, SizeOf(T))
    IN  IF bytes.tooBig THEN panic(env)                       \* capacity overflow
        ELSE IF AllocMayFail(bytes.v) /\ ~env.allocOk THEN "Abort"
        ELSE "Ok"

\* impl DeSerialize for Vec<T>
deserialize_vec(T, buf, offset, tr, env) ==
    LET p == deserialize_num("u64", buf, offset, tr, env)
    IN  IF p.kind # "Ok" THEN p
        ELSE
        LET len == p.val[1]
            cap == with_capacity(Elem(T), len, env)
        IN  IF cap # "Ok" THEN Outcome(cap, <<>>, p.offset, p.trace)
            ELSE deserialize_items(Elem(T), buf, len, 0, <<>>, p, env)

\* T::deserialize, dispatched on the type
deserialize(T, buf, offset, tr, env) ==
    IF Kind(T) = "num" THEN deserialize_num(T, buf, offset, tr, env)
    ELSE IF Kind(T) = "str" THEN deserialize_string(buf, offset, tr, env)
    ELSE deserialize_vec(T, buf, offset, tr, env)

(***************************************************************************)
(* The values the model serializes and the buffers it loads.               *)
(***************************************************************************)
SeqsUpTo(S, n) == UNION {[1..k -> S] : k \in 0..n}

RECURSIVE Flatten(_)
Flatten(ss) == IF ss = <<>> THEN <<>> ELSE ss[1] \o Flatten(Tail(ss))

USIZE_MAX == <<B - 1, B - 1, B - 1, B - 1>>

\* [["ab","cd"],["e"]]
Example == << << <<97, 98>>, <<99, 100>> >>, << <<101>> >> >>

Values(T) ==
    CASE T = "u8"     -> {255}
      [] T = "i16"    -> {-2}
      [] T = "u64"    -> {Limbs(1), USIZE_MAX}
      [] T = "String" -> {Flatten(cs) : cs \in SeqsUpTo({<<195, 169>>}, MaxStrLen)}
      [] T = "Vec<u8>"  -> SeqsUpTo({255}, MaxVecLen)
      [] T = "Vec<Vec<String>>" ->
             SeqsUpTo({<< <<97>> >>}, MaxVecLen) \cup {Example}

\* the pieces buffers are loaded from: 64-bit prefixes and single bytes
Atoms ==
    {to_be_bytes("u64", x) :
        x \in {Limbs(1), Limbs(2), <<B \div 4, 0, 0, 0>>, USIZE_MAX}}
    \cup {<<97>>, <<255>>}

LoadedBuffers == {Flatten(as) : as \in SeqsUpTo(Atoms, MaxAtoms)}

\* the cursors a caller hands to T::deserialize
Offsets(buf) ==
    {Limbs(1), Limbs(8), Limbs(Len(buf) + 1), USIZE_MAX}

Envs == [overflowChecks : BOOLEAN, allocOk : BOOLEAN]

(***************************************************************************)
(* The state machine.                                                      *)
(*   data     sbi.data                                                     *)
(*   written  the values serialized into the buffer so far (history)       *)
(*   last     the last call: its kind, type, argument, starting cursor and *)
(*            outcome, and whether it repeats the call before it           *)
(***************************************************************************)
NoRes == Outcome("None", <<>>, Limbs(0), <<>>)

Call(op, T, v, off, res, rep) ==
    [op |-> op, T |-> T, v |-> v, off |-> off, res |-> res, rep |-> rep]

\* the process is gone after an abort
Alive == last.res.kind # "Abort"

\* what a call leaves to observe: an abort leaves neither result nor cursor
Aborted == Outcome("Abort", <<>>, Limbs(0), <<>>)

Settle(r) == IF r.kind = "Abort" THEN Aborted ELSE r

\* extend_from_slice asks the allocator for memory when the buffer grows
GrowMayFail(old, new) == Len(new) > Len(old)

\* SBI::new()
Init ==
    /\ data = <<>>
    /\ written = <<>>
    /\ last = Call("new", "", <<>>, Limbs(0), NoRes, FALSE)

\* SBI::from_path(path), for a file of any content
InitLoad ==
    /\ data \in LoadedBuffers
    /\ written = <<>>
    /\ last = Call("load", "", <<>>, Limbs(0), NoRes, FALSE)

\* SBI::serialize(root)
SBI_serialize(T, root, env) ==
    /\ Alive
    /\ Len(written) < MaxOps
    /\ LET new == serialize(T, root, data)
       IN  IF GrowMayFail(data, new) /\ ~env.allocOk
           THEN /\ last' = Call("ser", T, <<root>>, Limbs(0), Aborted, FALSE)
                /\ UNCHANGED <<data, written>>
           ELSE /\ data' = new
                /\ written' = Append(written, [T |-> T, v |-> root])
                /\ last' = Call("ser", T, <<root>>, Limbs(0), NoRes, FALSE)

\* a cursor kept in the buffer object across calls
StartOffset_kept ==
    IF last.op = "de" /\ last.res.kind = "Ok" THEN last.res.offset ELSE Limbs(0)

\* let mut offset = 0
StartOffset == Limbs(0)

\* a decode_root that fails unless the whole buffer is consumed
SBI_deserialize_strict(T, env) ==
    /\ Alive
    /\ LET r == Settle(deserialize(T, data, Limbs(0), <<Limbs(0)>>, env))
       IN  last' = Call("de", T, <<>>, Limbs(0),
                        IF r.kind = "Ok" /\ r.offset # Limbs(Len(data))
                        THEN Outcome("Err", <<>>, r.offset, r.trace) ELSE r,
                        last.op = "de" /\ last.T = T)
    /\ UNCHANGED <<data, written>>

\* a decode_root that removes the bytes it has read from the buffer
SBI_deserialize_drain(T, env) ==
    /\ Alive
    /\ LET r == Settle(deserialize(T, data, Limbs(0), <<Limbs(0)>>, env))
       IN  /\ last' = Call("de", T, <<>>, Limbs(0), r, last.op = "de" /\ last.T = T)
           /\ data' = IF r.kind = "Ok"
                      THEN SubSeq(data, WNat(r.offset) + 1, Len(data)) ELSE data
    /\ UNCHANGED written

\* SBI::deserialize::<T>()
SBI_deserialize(T, env) ==
    /\ Alive
    /\ last' = Call("de", T, <<>>, StartOffset,
                    Settle(deserialize(T, data, StartOffset, <<StartOffset>>, env)),
                    last.op = "de" /\ last.T = T)
    /\ UNCHANGED <<data, written>>

\* <T as DeSerialize>::deserialize(&mut sbi, &mut offset), called directly
T_deserialize(T, offset, env) ==
    /\ Alive
    /\ last' = Call("at", T, <<>>, offset,
                    Settle(deserialize(T, data, offset, <<offset>>, env)), FALSE)
    /\ UNCHANGED <<data, written>>

Serialize ==
    \E T \in Types : \E root \in Values(T) : \E env \in Envs :
        SBI_serialize(T, root, env)

Deserialize == \E T \in Types : \E env \in Envs : SBI_deserialize(T, env)

DeserializeAt ==
    \E T \in Types : \E offset \in Offsets(data) : \E env \in Envs :
        T_deserialize(T, offset, env)

Next == Serialize \/ Deserialize

NextLoad == Deserialize \/ DeserializeAt

Spec == Init /\ [][Next]_vars

SpecLoad == InitLoad /\ [][NextLoad]_vars

(***************************************************************************)
(* Properties.                                                             *)
(***************************************************************************)
VVS == "Vec<Vec<String>>"

IsDecode == last.op \in {"de", "at"}

\* the last call came back to its caller, by return or by unwinding (the
\* allocator did not end the process)
Returned == last.res.kind # "Abort"

\* the bytes between a cursor and the end of the buffer
Remaining(off) ==
    IF WLess(Limbs(Len(data)), off) THEN 0 ELSE Len(data) - WNat(off)

\* the 64-bit prefix at a cursor that has 8 bytes after it
PrefixAt(off) == from_be_bytes("u64", SubSeq(data, WNat(off) + 1, WNat(off) + 8))

\* the size the format gives a value: width/8, 8 + the elements, 8 + the bytes
RECURSIVE EncodedSize(_, _)
RECURSIVE SumSizes(_, _, _)
SumSizes(T, items, i) ==
    IF i > Len(items) THEN 0 ELSE EncodedSize(T, items[i]) + SumSizes(T, items, i + 1)
EncodedSize(T, v) ==
    IF Kind(T) = "num" THEN SIZE(T)
    ELSE IF Kind(T) = "str" THEN 8 + Len(v)
    ELSE 8 + SumSizes(Elem(T), v, 1)

\* the concatenation of the encodings of a history of serialized values
RECURSIVE EncodeAll(_)
EncodeAll(ws) ==
    IF ws = <<>> THEN <<>>
    ELSE serialize(ws[1].T, ws[1].v, <<>>) \o EncodeAll(Tail(ws))

IsPrefix(a, b) == Len(a) <= Len(b) /\ SubSeq(b, 1, Len(a)) = a

Monotone(tr) == \A i \in 1..(Len(tr) - 1) : ~WLess(tr[i + 1], tr[i])

\* C1: a value serialized into an empty buffer decodes, from cursor 0 and at
\* its own type, to Ok(that value), and the cursor ends at the number of
\* bytes serialize appended, which is the size the format gives the value
\* (a decode that returns: one the allocator ends returns nothing).
C1_RoundTrip ==
    (last.op = "de" /\ Returned /\ Len(written) = 1 /\ last.T = written[1].T) =>
        /\ last.res.kind = "Ok"
        /\ last.res.val = <<written[1].v>>
        /\ last.res.offset = Limbs(Len(data))
        /\ Len(data) = EncodedSize(last.T, written[1].v)

C1_Witness ==
    /\ last.op = "de" /\ Len(written) = 1
    /\ last.T = "i16" /\ written[1].T = "i16"
    /\ written[1].v < 0
    /\ last.res.kind = "Ok"

\* C2: a String decode whose 64-bit length prefix L exceeds the bytes that
\* remain after the prefix returns Err (it neither panics nor truncates).
C2_TextLengthMismatch ==
    (/\ IsDecode /\ Returned /\ last.T = "String"
     /\ Remaining(last.off) >= 8
     /\ WLess(Limbs(Remaining(last.off) - 8), PrefixAt(last.off)))
    => last.res.kind = "Err"

\* the fewest bytes an element of a Vec takes in the buffer
MinElemBytes(T) == IF Kind(Elem(T)) = "num" THEN SIZE(Elem(T)) ELSE 8

\* C3: a Vec decode whose count N exceeds the elements the bytes after the
\* count can hold returns Err with no partial collection and no panic,
\* whatever N is (stated here of the decodes the allocator does not end).
C3_SequenceCountMismatch ==
    (/\ IsDecode /\ Returned /\ last.T \in VecTypes
     /\ Remaining(last.off) >= 8
     /\ WLess(Limbs((Remaining(last.off) - 8) \div MinElemBytes(last.T)),
              PrefixAt(last.off)))
    => (last.res.kind = "Err" /\ last.res.val = <<>>)

\* C4: a numeric decode returns Err exactly when fewer than SIZE bytes remain
\* between the cursor and the end of the buffer, for every cursor; otherwise
\* it returns the big-endian reading of the SIZE bytes at the cursor and
\* advances the cursor by SIZE (stated here of the decodes that come back to
\* their caller, by return or by unwinding).
C4_NumericTruncation ==
    (IsDecode /\ Returned /\ last.T \in NumTypes) =>
        IF Remaining(last.off) < SIZE(last.T)
        THEN last.res.kind = "Err"
        ELSE /\ last.res.kind = "Ok"
             /\ last.res.val =
                    <<from_be_bytes(last.T, SubSeq(data, WNat(last.off) + 1,
                                                   WNat(last.off) + SIZE(last.T)))>>
             /\ last.res.offset = Limbs(WNat(last.off) + SIZE(last.T))

\* C5: SBI::deserialize on a buffer holding the encoding of V followed by
\* further bytes returns Ok(V), whatever the further bytes are, with the
\* cursor left before them.
C5_TrailingBytes ==
    (last.op = "de" /\ Returned /\ Len(written) >= 2 /\ last.T = written[1].T) =>
        /\ last.res.kind = "Ok"
        /\ last.res.val = <<written[1].v>>
        /\ last.res.offset = Limbs(EncodedSize(last.T, written[1].v))
        /\ EncodedSize(last.T, written[1].v) < Len(data)

C5_Witness ==
    /\ last.op = "de" /\ Len(written) >= 2
    /\ last.T = "String" /\ written[1].T = "String"
    /\ written[1].v # <<>>
    /\ last.res.kind = "Ok"
    /\ WNat(last.res.offset) < Len(data)

\* C6: every serialize call that returns leaves the earlier content as a prefix, never
\* shortens the buffer, and appends exactly the encoding of its value, so
\* the buffer is the encodings of the serialized values in call order.
C6_AppendOnly ==
    [][/\ IsPrefix(data, data')
       /\ Len(data') >= Len(data)
       /\ (last'.op = "ser" /\ last'.res.kind # "Abort")
             => data' = data \o serialize(last'.T, last'.v[1], <<>>)
       /\ data' = EncodeAll(written')]_vars

C6_Witness ==
    /\ last.op = "ser" /\ Returned /\ Len(written) = 2
    /\ last.T = VVS /\ Len(last.v[1]) > 0
    /\ written[1].T = "String"
    /\ Len(data) > EncodedSize(VVS, last.v[1])

\* C7: in a decode started by SBI::deserialize the cursor starts at 0 and
\* never decreases, and on success it is the number of bytes the root value
\* takes: the first `cursor` bytes alone decode to the same value, and one
\* byte fewer do not decode.
C7_CursorDiscipline ==
    (last.op = "de" /\ Returned) =>
        /\ last.res.trace[1] = Limbs(0)
        /\ Monotone(last.res.trace)
        /\ last.res.offset = last.res.trace[Len(last.res.trace)]
        /\ last.res.kind = "Ok" =>
            LET n == WNat(last.res.offset)
            IN  /\ ~WLess(Limbs(Len(data)), last.res.offset)
                /\ \A env \in Envs :
                    /\ env.allocOk =>
                        deserialize(last.T, SubSeq(data, 1, n), Limbs(0),
                                    <<Limbs(0)>>, env) = last.res
                    /\ n > 0 =>
                        deserialize(last.T, SubSeq(data, 1, n - 1), Limbs(0),
                                    <<Limbs(0)>>, env).kind # "Ok"

C7_Witness ==
    /\ last.op = "de" /\ last.T = VVS
    /\ last.res.kind = "Ok"
    /\ Len(last.res.trace) > 6
    /\ WNat(last.res.offset) < Len(data)

\* the layout the format gives a sequence of sequences of text
U64BE(n) == <<0, 0, 0, 0, 0, 0, 0, n>>

TextLayout(t) == U64BE(Len(t)) \o t

InnerLayout(ts) == U64BE(Len(ts)) \o Flatten([i \in 1..Len(ts) |-> TextLayout(ts[i])])

NestedLayout(v) == U64BE(Len(v)) \o Flatten([i \in 1..Len(v) |-> InnerLayout(v[i])])

\* count(2) | count(2) | len(2)"ab" | len(2)"cd" | count(1) | len(1)"e"
ExampleBytes ==
    <<0, 0, 0, 0, 0, 0, 0, 2,
      0, 0, 0, 0, 0, 0, 0, 2,
      0, 0, 0, 0, 0, 0, 0, 2, 97, 98,
      0, 0, 0, 0, 0, 0, 0, 2, 99, 100,
      0, 0, 0, 0, 0, 0, 0, 1,
      0, 0, 0, 0, 0, 0, 0, 1, 101>>

\* C8: serializing a Vec<Vec<String>> appends the outer count, then for each
\* inner sequence its count and each text as length and raw bytes, all
\* counts and lengths as 8 big-endian bytes and nothing between them (the
\* example gives exactly the 53 bytes above); decoding these bytes as
\* Vec<Vec<String>> gives the structure back.
C8_NestedLayout ==
    /\ (last.op = "ser" /\ Returned /\ last.T = VVS) =>
          LET lay == NestedLayout(last.v[1])
          IN  /\ Len(data) >= Len(lay)
              /\ SubSeq(data, Len(data) - Len(lay) + 1, Len(data)) = lay
              /\ (Len(written) = 1 /\ last.v[1] = Example) => data = ExampleBytes
    /\ (last.op = "de" /\ Returned /\ last.T = VVS
          /\ written # <<>> /\ written[1].T = VVS) =>
          /\ last.res.kind = "Ok"
          /\ last.res.val = <<written[1].v>>

C8_Witness ==
    /\ last.op = "de" /\ last.T = VVS
    /\ written # <<>> /\ written[1].T = VVS
    /\ written[1].v = Example
    /\ IsPrefix(ExampleBytes, data)
    /\ last.res.kind = "Ok" /\ last.res.val = <<Example>>

\* C9: a decode call, whether it succeeds or fails, leaves the content and
\* the length of the buffer as they were.
C9_DecodeReadOnly ==
    [][last'.op \in {"de", "at"} => data' = data]_vars

C9_Witness ==
    /\ last.op = "de" /\ last.res.kind = "Err"
    /\ Len(data) > 0 /\ Len(written) = 2

\* C10: every SBI::deserialize call starts its cursor at 0, so a call that
\* repeats the call before it on the same buffer returns, when it returns, the same result,
\* and on a buffer of several records a repeated call at the first record's
\* type decodes the first record again.
C10_FreshCursor ==
    [][(last'.op = "de" /\ last'.res.kind # "Abort") =>
          /\ last'.off = Limbs(0)
          /\ last'.res.trace[1] = Limbs(0)
          /\ (last.op = "de" /\ last.T = last'.T) => last'.res = last.res
          /\ (last'.rep /\ Len(written) >= 2 /\ last'.T = written[1].T)
                => last'.res.val = <<written[1].v>>]_vars

C10_Witness ==
    /\ last.op = "de" /\ last.rep
    /\ Len(written) >= 2
    /\ last.T = "u8" /\ written[1].T = "u8" /\ written[2].T = "u8"
    /\ last.res.kind = "Ok"

====
